---- MODULE Spec2Model ----
(***************************************************************************)
(* Model of filter_tester/filter_extractor.py: the token manager, the      *)
(* retrying POST helper, the sample value extractor, the field processor   *)
(* and the run driver.                                                     *)
(*                                                                         *)
(* Python strings are sequences of one-character strings, so that          *)
(* str.strip(), float(), str.lower() and the "in" substring test are       *)
(* computed rather than assumed.  A JSON scalar is a record                *)
(*   [t |-> "null"] | [t |-> "str", s |-> chars] | [t |-> "int", n |-> i]. *)
(* A float is a record [m |-> mantissa, e |-> decimal exponent] standing   *)
(* for m / 10^e, normalised so that equal floats are equal records.        *)
(***************************************************************************)
EXTENDS Integers, Sequences, FiniteSets, TLC

\* ------------------------------------------------------------------------
\* Bounds of the model
\* ------------------------------------------------------------------------
\* rows of a raw response body explored by the extractor specification
MaxRows == 4
\* 401 responses the report endpoint gives in one run
Max401 == 2
\* largest retries argument explored by the retry specification
MaxRetries == 4

\* ------------------------------------------------------------------------
\* Python values
\* ------------------------------------------------------------------------
None == [t |-> "null"]
Str(s) == [t |-> "str", s |-> s]
JInt(n) == [t |-> "int", n |-> n]

Digits == <<"0", "1", "2", "3", "4", "5", "6", "7", "8", "9">>

IsDigit(c) == \E i \in 1..10 : Digits[i] = c

DigitVal(c) == (CHOOSE i \in 1..10 : Digits[i] = c) - 1

RECURSIVE Pow10(_)
Pow10(k) == IF k = 0 THEN 1 ELSE 10 * Pow10(k - 1)

\* str(n) for an integer n
RECURSIVE NatToStr(_)
NatToStr(n) == IF n < 10 THEN <<Digits[n + 1]>>
               ELSE NatToStr(n \div 10) \o <<Digits[(n % 10) + 1]>>

IntToStr(n) == IF n < 0 THEN <<"-">> \o NatToStr(0 - n) ELSE NatToStr(n)

\* str(value) for a non-null JSON scalar
PyStr(v) == IF v.t = "str" THEN v.s ELSE IntToStr(v.n)

\* str.strip(): whitespace removed at both ends
RECURSIVE LStrip(_)
LStrip(s) == IF s # <<>> /\ Head(s) = " " THEN LStrip(Tail(s)) ELSE s

RECURSIVE RStrip(_)
RStrip(s) == IF s # <<>> /\ s[Len(s)] = " " THEN RStrip(SubSeq(s, 1, Len(s) - 1)) ELSE s

Strip(s) == RStrip(LStrip(s))

\* str.lower() over the letters the model uses
Lower(s) == [i \in 1..Len(s) |->
               IF s[i] = "A" THEN "a" ELSE IF s[i] = "N" THEN "n" ELSE s[i]]

\* the substring test  a in b
Contains(b, a) == \E i \in 0..(Len(b) - Len(a)) : SubSeq(b, i + 1, i + Len(a)) = a

\* ------------------------------------------------------------------------
\* float(str(value))
\* ------------------------------------------------------------------------
NotFloat == [ok |-> FALSE]

RECURSIVE DigitsToNat(_)
DigitsToNat(s) == IF s = <<>> THEN 0
                  ELSE 10 * DigitsToNat(SubSeq(s, 1, Len(s) - 1)) + DigitVal(s[Len(s)])

RECURSIVE Normalise(_, _)
Normalise(m, e) == IF e > 0 /\ m % 10 = 0 THEN Normalise(m \div 10, e - 1)
                   ELSE [ok |-> TRUE, m |-> m, e |-> e]

\* float(s): optional sign, digits with at most one point, at least one
\* digit, surrounding whitespace ignored; anything else is a ValueError
ParseFloat(s) ==
    LET t == Strip(s)
        signed == t # <<>> /\ (t[1] = "-" \/ t[1] = "+")
        u == IF signed THEN Tail(t) ELSE t
        dots == {i \in 1..Len(u) : u[i] = "."}
        digs == SelectSeq(u, IsDigit)
    IN  IF /\ Cardinality(dots) <= 1
           /\ digs # <<>>
           /\ \A i \in 1..Len(u) : IsDigit(u[i]) \/ u[i] = "."
        THEN LET e == IF dots = {} THEN 0 ELSE Len(u) - (CHOOSE i \in dots : TRUE)
                 m == DigitsToNat(digs)
             IN  Normalise(IF signed /\ t[1] = "-" THEN 0 - m ELSE m, e)
        ELSE NotFloat

PyFloat(v) == IF v.t = "null" THEN NotFloat ELSE ParseFloat(PyStr(v))

\* a < b on floats
FloatLess(a, b) == a.m * Pow10(b.e) < b.m * Pow10(a.e)

is_numeric(value) == IF value = None THEN FALSE ELSE PyFloat(value).ok

\* variant: numeric_values is left in row order
SortFloats_unsorted(s) == s

\* list.sort() on floats (stable insertion sort)
RECURSIVE InsertSorted(_, _)
InsertSorted(x, s) == IF s = <<>> THEN <<x>>
                      ELSE IF FloatLess(x, Head(s)) THEN <<x>> \o s
                      ELSE <<Head(s)>> \o InsertSorted(x, Tail(s))

RECURSIVE SortFloats(_)
SortFloats(s) == IF s = <<>> THEN <<>>
                 ELSE InsertSorted(s[Len(s)], SortFloats(SubSeq(s, 1, Len(s) - 1)))

\* ------------------------------------------------------------------------
\* Response bodies (the result of safe_json)
\*   [k |-> "rows", rows |-> <<row, ...>>]  a dict whose 'data' is a list
\*   [k |-> "nodata"]     a dict without 'data' (also the _raw_text fallback)
\*   [k |-> "notlist"]    a dict whose 'data' is not a list
\*   [k |-> "scalar"]     a body on which  'data' in body  raises TypeError
\* A row is [k |-> "dict", items |-> <<<<key, value>>, ...>>] in insertion
\* order, or [k |-> "other"] for a row that is not a dict.
\* ------------------------------------------------------------------------
RowHas(items, key) == \E i \in 1..Len(items) : items[i][1] = key

RowGet(items, key) == items[CHOOSE i \in 1..Len(items) : items[i][1] = key][2]

\* value is not None and str(value).strip() != ""
Usable(value) == value # None /\ Strip(PyStr(value)) # <<>>

possible_keys(group, field) ==
    << field,
       group \o <<".">> \o field,
       group \o <<"_">> \o field,
       group \o <<" ">> \o field >>

\* variant: the first key of the row, in row order, that is a candidate key
\* or contains the field name is taken
RowValues_rowOrder(row, group, field) ==
    IF row.k # "dict" THEN <<>>
    ELSE LET items == row.items
             subs == {i \in 1..Len(items) :
                        /\ Contains(Lower(items[i][1]), Lower(field))
                        /\ Usable(items[i][2])}
             Min(S) == CHOOSE x \in S : \A y \in S : x <= y
         IN  IF subs # {} THEN <<items[Min(subs)][2]>> ELSE <<>>

\* variant: the substring fallback runs only for a row without any
\* candidate key
RowValues_absentOnly(row, group, field) ==
    IF row.k # "dict" THEN <<>>
    ELSE LET items == row.items
             keys == possible_keys(group, field)
             present == {i \in 1..Len(keys) : RowHas(items, keys[i])}
             hits == {i \in present : Usable(RowGet(items, keys[i]))}
             subs == {i \in 1..Len(items) :
                        /\ Contains(Lower(items[i][1]), Lower(field))
                        /\ Usable(items[i][2])}
             Min(S) == CHOOSE x \in S : \A y \in S : x <= y
         IN  IF hits # {} THEN <<RowGet(items, keys[Min(hits)])>>
             ELSE IF present = {} /\ subs # {} THEN <<items[Min(subs)][2]>>
             ELSE <<>>

\* the values one row appends to  values : a sequence of length 0 or 1
RowValues(row, group, field) ==
    IF row.k # "dict" THEN <<>>
    ELSE LET items == row.items
             keys == possible_keys(group, field)
             hits == {i \in 1..Len(keys) :
                        RowHas(items, keys[i]) /\ Usable(RowGet(items, keys[i]))}
             subs == {i \in 1..Len(items) :
                        /\ Contains(Lower(items[i][1]), Lower(field))
                        /\ Usable(items[i][2])}
             Min(S) == CHOOSE x \in S : \A y \in S : x <= y
         IN  IF hits # {} THEN <<RowGet(items, keys[Min(hits)])>>
             ELSE IF subs # {} THEN <<items[Min(subs)][2]>>
             ELSE <<>>

RECURSIVE CollectValues(_, _, _)
CollectValues(rows, group, field) ==
    IF rows = <<>> THEN <<>>
    ELSE RowValues(Head(rows), group, field) \o CollectValues(Tail(rows), group, field)

\* numeric_values, in row order
RECURSIVE NumericValues(_)
NumericValues(values) ==
    IF values = <<>> THEN <<>>
    ELSE (IF is_numeric(Head(values)) THEN <<PyFloat(Head(values))>> ELSE <<>>)
         \o NumericValues(Tail(values))

\* variant: the first value of equal parse is kept
OriginalToNumeric_first(values) ==
    LET idx == {j \in 1..Len(values) : is_numeric(values[j])}
    IN  [f \in {PyFloat(values[j]) : j \in idx} |->
            values[CHOOSE j \in idx :
                     /\ PyFloat(values[j]) = f
                     /\ \A k \in idx : PyFloat(values[k]) = f => j <= k]]

\* original_to_numeric: a later value overwrites an earlier one of equal parse
RECURSIVE OriginalToNumeric(_)
OriginalToNumeric(values) ==
    IF values = <<>> THEN <<>>
    ELSE LET init == SubSeq(values, 1, Len(values) - 1)
             val == values[Len(values)]
         IN  IF is_numeric(val) THEN (PyFloat(val) :> val) @@ OriginalToNumeric(init)
             ELSE OriginalToNumeric(init)

\* variant: the lower of the two middle elements of an even slice is taken
SelectedIndex_lowmid(n) ==
    LET start_idx == n \div 4
        end_idx == (3 * n) \div 4
        middle_len == end_idx - start_idx
        middle_idx == (middle_len - 1) \div 2
    IN  IF n > 1 /\ middle_len > 0 THEN start_idx + middle_idx + 1 ELSE 0

\* index (1-based, in the sorted list) of selected_numeric; 0 when the
\* middle-range branch is not taken
SelectedIndex(n) ==
    LET start_idx == n \div 4
        end_idx == (3 * n) \div 4
        middle_len == end_idx - start_idx
        middle_idx == middle_len \div 2
    IN  IF n > 1 /\ middle_len > 0 THEN start_idx + middle_idx + 1 ELSE 0

\* variant: outside the middle-range branch the last value is returned
SampleOf_last(values, for_comparison) ==
    LET numeric_values == SortFloats(NumericValues(values))
        sel == SelectedIndex(Len(numeric_values))
    IN  IF for_comparison /\ Len(values) > 1 /\ sel > 0
        THEN OriginalToNumeric(values)[numeric_values[sel]]
        ELSE values[Len(values)]

\* variant: no fall back to the first value for the comparison sample
SampleOf_noFallback(values, for_comparison) ==
    LET numeric_values == SortFloats(NumericValues(values))
        sel == SelectedIndex(Len(numeric_values))
    IN  IF for_comparison
        THEN (IF Len(values) > 1 /\ sel > 0
              THEN OriginalToNumeric(values)[numeric_values[sel]]
              ELSE None)
        ELSE values[1]

\* the value chosen from  values  (non-empty)
SampleOf(values, for_comparison) ==
    LET numeric_values == SortFloats(NumericValues(values))
        sel == SelectedIndex(Len(numeric_values))
    IN  IF for_comparison /\ Len(values) > 1 /\ sel > 0
        THEN OriginalToNumeric(values)[numeric_values[sel]]
        ELSE values[1]

extract_sample_value(response_data, group, field, for_comparison) ==
    IF response_data.response.k # "rows" THEN None
    ELSE IF Len(response_data.response.rows) = 0 THEN None
    ELSE LET values == CollectValues(response_data.response.rows, group, field)
         IN  IF values = <<>> THEN None ELSE SampleOf(values, for_comparison)

\* variant: not_equal and greater change places
FILTERS_swapped == <<"equal", "greater", "not_equal", "less", "like", "in">>

FILTERS == <<"equal", "not_equal", "greater", "less", "like", "in">>

\* variant: every operator is applied whatever the type of the sample
get_applicable_filters_all(sample_value) == FILTERS

get_applicable_filters(sample_value) ==
    IF sample_value = None THEN FILTERS
    ELSE IF is_numeric(sample_value) THEN FILTERS
    ELSE SelectSeq(FILTERS, LAMBDA f : f \notin {"greater", "less"})

\* ------------------------------------------------------------------------
\* Configuration
\* ------------------------------------------------------------------------
\* names of the GROUPS table used by the model
receipts == <<"r", "e", "c", "e", "i", "p", "t", "s">>
deposits == <<"d", "e", "p", "o", "s", "i", "t", "s">>
note == <<"n", "o", "t", "e">>
amount == <<"a", "m", "o", "u", "n", "t">>

\* the (group, field) pairs of GROUPS the run iterates, in mapping order
Catalog == << <<receipts, note>>, <<deposits, amount>> >>

\* variant: the first request is allowed one attempt more
FIRST_RETRIES_three == 2 + 1

\* retries argument of the first request of a fetch
FIRST_RETRIES == 2

\* variant: the retried request is given the budget of the first request
RETRY_RETRIES_two == FIRST_RETRIES

\* retries argument of the request retried after a 401
RETRY_RETRIES == 1

\* ------------------------------------------------------------------------
\* The remote service
\* ------------------------------------------------------------------------
Statuses == {200, 401, 500}

S_12_50 == Str(<<"1", "2", ".", "5", "0">>)
S_12_5 == Str(<<"1", "2", ".", "5">>)
S_45 == Str(<<"4", "5">>)
S_30 == Str(<<"3", "0">>)
S_9 == Str(<<"9">>)
S_abc == Str(<<"a", "b", "c">>)
S_empty == Str(<<>>)
S_blank == Str(<<" ">>)

\* rows keyed by one key, one row per value
RowsOf(key, vals) == [i \in 1..Len(vals) |-> [k |-> "dict", items |-> << <<key, vals[i]>> >>]]

RowsBody(rows) == [k |-> "rows", rows |-> rows]

\* the label the report request asks for: f"{group} {field}"
Label(group, field) == group \o <<" ">> \o field

\* bodies the report endpoint answers with for an unfiltered (group, field)
\* request
ReportBodies(group, field) ==
    { RowsBody(RowsOf(Label(group, field), <<S_12_50, S_45, S_30, S_9>>)),
      RowsBody(RowsOf(Label(group, field), <<S_abc, S_45, S_30>>)),
      RowsBody(RowsOf(Label(group, field), <<S_empty, None>>)),
      [k |-> "nodata"] }

\* bodies the report endpoint answers with for a filtered request
FilteredBodies(group, field) ==
    { RowsBody(RowsOf(Label(group, field), <<S_45, S_30>>)),
      [k |-> "nodata"] }

\* what one HTTP POST to the report endpoint can yield
RequestException == [net |-> "error"]

Response(status, body) == [net |-> "ok", status_code |-> status, body |-> body]

\* what one HTTP POST to the login endpoint can yield
LoginBodies == {"not_json", "not_dict", "no_data", "data_null", "data_not_dict",
                "no_access_token", "empty_access_token", "access_token"}

LoginResponses ==
    {[net |-> "error"], [net |-> "ok", ok |-> FALSE, body |-> "not_json"]}
    \cup {[net |-> "ok", ok |-> TRUE, body |-> b] : b \in LoginBodies}

\* TokenManager.login up to the point where it returns or raises:
\*   "token"  self.token is set and the token returned
\*   "none"   None is returned
\*   "raise"  body.get("data", {}) is not a dict and .get raises AttributeError
LoginResult(resp) ==
    IF resp.net = "error" THEN "none"
    ELSE IF ~resp.ok THEN "none"
    ELSE IF resp.body \in {"not_json", "no_data"} THEN "none"
    ELSE IF resp.body = "not_dict" THEN "none"
    ELSE IF resp.body \in {"data_null", "data_not_dict"} THEN "raise"
    ELSE IF resp.body \in {"no_access_token", "empty_access_token"} THEN "none"
    ELSE "token"

NoToken == 0

\* ------------------------------------------------------------------------
\* State
\* ------------------------------------------------------------------------
VARIABLES
    pc,                 \* position of the single thread of control
    fieldIdx,           \* index in Catalog of the field being processed
    opIdx,              \* 0: raw fetch; k: k-th filter of applicable_filters
    tm_token,           \* TokenManager.token (NoToken for None)
    issued,             \* number of tokens the login endpoint has issued
    invalidated,        \* tokens nulled by TokenManager.refresh
    token,              \* fetch_field_data: the token local
    headers,            \* fetch_field_data: token of the Authorization header
    filter_operator,    \* fetch_field_data: argument ("none" for None)
    filter_value,       \* fetch_field_data: argument
    res,                \* fetch_field_data: res, and its return value
    retries,            \* post_with_retry: argument
    attempt,            \* post_with_retry: loop variable
    delay,              \* post_with_retry: the backoff delay local
    waits,              \* post_with_retry: the time.sleep(delay) calls made
    call,               \* post_with_retry: "idle", "running", "returned", "raised"
    raw_result,         \* process_field: raw_result
    sample_value,       \* process_field: sample_value
    comparison_value,   \* process_field: comparison_value
    applicable_filters, \* process_field: applicable_filters
    writes,             \* per output file, the number of times it was written
    lastArtifact,       \* content of the file written last
    nPosts,             \* report requests sent by the current fetch
    nLogins,            \* login requests sent by the current fetch
    firstStatus,        \* status of the first response of the current fetch
    retryStatus,        \* status of the response to the retried request
    nRefresh,           \* token_manager.refresh() calls of the current fetch
    nRetried,           \* report requests the current fetch sent after a 401
    outcome,            \* of the current fetch: "pending", "written", "raised"
    n401,               \* 401 responses given so far
    login_exc,          \* login response whose exception run() has not yet logged
    delayed,            \* time.sleep(delay) elapsed since the last request
    samples,            \* what process_field derives from each body (Samples)
    excLog              \* run: fields whose "Error processing" was logged

vars == << pc, fieldIdx, opIdx, tm_token, issued, invalidated, token, headers,
           filter_operator, filter_value, res, retries, attempt, delay, waits,
           call, raw_result, sample_value, comparison_value, applicable_filters,
           writes, lastArtifact, nPosts, nLogins, firstStatus, retryStatus,
           nRefresh, nRetried, outcome, n401, login_exc, delayed, samples,
           excLog >>

tokenVars == << tm_token, issued, invalidated, login_exc >>
callVars == << retries, attempt, delay, waits, call >>
countVars == << nPosts, nLogins, firstStatus, retryStatus, nRefresh, nRetried >>
fetchVars == << token, headers, res, callVars, countVars, outcome >>
argVars == << filter_operator, filter_value >>
fieldVars == << raw_result, sample_value, comparison_value, applicable_filters >>
fileVars == << writes, lastArtifact >>

NoRes == [net |-> "none"]
NoBody == [k |-> "none"]
NoLogin == [net |-> "none"]
NoRaw == [status_code |-> 0, response |-> NoBody]
NoArtifact == [field |-> 0, file |-> "none", error |-> "none", status_code |-> 0,
               filter_value |-> None, response |-> NoBody]

FileNames == {"raw_data"} \cup {FILTERS[i] : i \in 1..Len(FILTERS)}
Files == (1..Len(Catalog)) \X FileNames

group == Catalog[fieldIdx][1]
field == Catalog[fieldIdx][2]

\* ------------------------------------------------------------------------
\* TokenManager
\* ------------------------------------------------------------------------
\* variant: a login that fails puts the last issued token back in the slot
login_writesOnFailure(resp, slot) ==
    /\ delayed' = FALSE
    /\ IF LoginResult(resp) = "token"
       THEN /\ issued' = issued + 1
            /\ tm_token' = issued + 1
            /\ login_exc' = login_exc
       ELSE /\ issued' = issued
            /\ tm_token' = issued
            /\ login_exc' = IF LoginResult(resp) = "raise" THEN resp ELSE login_exc

\* TokenManager.login on the response resp; slot is self.token at entry
login(resp, slot) ==
    /\ delayed' = FALSE
    /\ IF LoginResult(resp) = "token"
       THEN /\ issued' = issued + 1
            /\ tm_token' = issued + 1
            /\ login_exc' = login_exc
       ELSE /\ issued' = issued
            /\ tm_token' = slot
            /\ login_exc' = IF LoginResult(resp) = "raise" THEN resp ELSE login_exc

\* ------------------------------------------------------------------------
\* post_with_retry: one iteration of  for attempt in range(1, retries + 1)
\* ------------------------------------------------------------------------
ReportOutcomes ==
    {RequestException}
    \cup {Response(st, b) : st \in {x \in Statuses : x = 401 => n401 < Max401},
                            b \in IF filter_operator = "none"
                                  THEN ReportBodies(group, field)
                                  ELSE FilteredBodies(group, field)}

\* variant: the backoff grows by one instead of doubling
NextDelay_linear(d) == d + 1

\* delay *= 2
NextDelay(d) == d * 2

post_with_retry(out) ==
    /\ call = "running"
    /\ nPosts' = nPosts + 1
    /\ delayed' = FALSE
    /\ n401' = IF out.net = "ok" /\ out.status_code = 401 THEN n401 + 1 ELSE n401
    /\ IF out.net = "ok"
       THEN /\ res' = out
            /\ call' = "returned"
            /\ UNCHANGED <<attempt, delay, waits>>
       ELSE IF attempt = retries
       THEN /\ call' = "raised"
            /\ UNCHANGED <<res, attempt, delay, waits>>
       ELSE /\ waits' = Append(waits, delay)
            /\ delay' = NextDelay(delay)
            /\ attempt' = attempt + 1
            /\ UNCHANGED <<res, call>>

\* ------------------------------------------------------------------------
\* fetch_field_data
\* ------------------------------------------------------------------------
\* the filters[group][0][...] entries fetch_field_data adds to the payload
\* under  if filter_operator and filter_value is not None
FilterEntries(op, value) ==
    IF op # "none" /\ value # None
    THEN {"field", "group", "operator", "value"}
    ELSE {}

\* variant: the fetch is called without the preceding time.sleep(delay)
CallFetch_nodelay(op, value) ==
    /\ pc' = "get"
    /\ delayed' = FALSE
    /\ filter_operator' = op
    /\ filter_value' = value

\* the call  fetch_field_data(group, field, op, value)  made by process_field
\* after its time.sleep(delay)
CallFetch(op, value) ==
    /\ pc' = "get"
    /\ delayed' = TRUE
    /\ filter_operator' = op
    /\ filter_value' = value

\* the call  post_with_retry(..., retries=n)  up to its first attempt
CallPost(n) ==
    /\ retries' = n
    /\ attempt' = 1
    /\ delay' = 1
    /\ waits' = <<>>
    /\ call' = "running"

\* variant: the header is not rebuilt after the re-login
RebuiltAuthorization_stale(new_token, old_token) == old_token

\* the Authorization header of the retried request
RebuiltAuthorization(new_token, old_token) == new_token

\* variant: a 401 on the retried request is handled like the first one
AfterRetry_again(status) == IF status = 401 THEN "refresh" ELSE "persist"

\* what the branch  if res.status_code == 401  does after the retried request
AfterRetry(status) == "persist"

\* variant: every error status is handled like a 401
AfterFirst_anyError(status) == IF status >= 400 THEN "refresh" ELSE "persist"

\* what the branch  if res.status_code == 401  does after the first request
AfterFirst(status) == IF status = 401 THEN "refresh" ELSE "persist"

\* variant: run has no try/except around process_field
OnFieldException_escapes == "crashed"

\* where an exception raised inside process_field takes run:  except Exception
\* logs "Error processing" and the loop goes on with the next field
OnFieldException == "next_field"

\* variant: TokenManager.get never finds a cached token
HasCachedToken_never(slot) == FALSE

\* TokenManager.get: the slot holds a token, which is returned as it is
HasCachedToken(slot) == slot # NoToken

\* token_manager.get() finds a token in the slot
FetchGetCached ==
    /\ pc = "get"
    /\ HasCachedToken(tm_token)
    /\ token' = tm_token
    /\ headers' = tm_token
    /\ res' = NoRes
    /\ CallPost(FIRST_RETRIES)
    /\ pc' = "post"
    /\ outcome' = "pending"
    /\ nPosts' = 0
    /\ nLogins' = 0
    /\ firstStatus' = 0
    /\ retryStatus' = 0
    /\ nRefresh' = 0
    /\ nRetried' = 0
    /\ UNCHANGED << samples, excLog, fieldIdx, opIdx, tokenVars, argVars, fieldVars, fileVars,
                    n401, delayed >>

\* token_manager.get() finds the slot empty and logs in
FetchGetLogin ==
    /\ pc = "get"
    /\ ~HasCachedToken(tm_token)
    /\ nPosts' = 0
    /\ nLogins' = 1
    /\ firstStatus' = 0
    /\ retryStatus' = 0
    /\ nRefresh' = 0
    /\ nRetried' = 0
    /\ res' = NoRes
    /\ \E resp \in LoginResponses :
         /\ login(resp, tm_token)
         /\ IF LoginResult(resp) = "token"
            THEN /\ token' = tm_token'
                 /\ headers' = tm_token'
                 /\ CallPost(FIRST_RETRIES)
                 /\ pc' = "post"
                 /\ outcome' = "pending"
                 /\ excLog' = excLog
            ELSE /\ token' = NoToken
                 /\ headers' = NoToken
                 /\ retries' = 0
                 /\ attempt' = 0
                 /\ delay' = 0
                 /\ waits' = <<>>
                 /\ call' = "idle"
                 /\ IF LoginResult(resp) = "raise"
                    THEN /\ pc' = OnFieldException
                         /\ outcome' = "raised"
                         /\ excLog' = excLog \cup {fieldIdx}
                    ELSE /\ pc' = "persist"
                         /\ outcome' = "pending"
                         /\ excLog' = excLog
    /\ UNCHANGED << samples, fieldIdx, opIdx, invalidated, argVars, fieldVars, fileVars, n401 >>

\* an attempt of the first request of the fetch
FetchPost ==
    /\ pc = "post"
    /\ \E out \in ReportOutcomes : post_with_retry(out)
    /\ firstStatus' = IF call' = "returned" THEN res'.status_code ELSE firstStatus
    /\ pc' = IF call' = "running" THEN "post"
             ELSE IF call' = "returned" THEN AfterFirst(res'.status_code)
             ELSE "persist"
    /\ UNCHANGED << samples, excLog, fieldIdx, opIdx, tokenVars, argVars, token, headers, retries,
                    nLogins, retryStatus, nRefresh, nRetried, outcome, fieldVars,
                    fileVars >>

\* res.status_code == 401: token_manager.refresh()
FetchRefresh ==
    /\ pc = "refresh"
    /\ invalidated' = invalidated \cup ({tm_token} \ {NoToken})
    /\ nRefresh' = nRefresh + 1
    /\ nLogins' = nLogins + 1
    /\ \E resp \in LoginResponses :
         /\ login(resp, NoToken)
         /\ IF LoginResult(resp) = "token"
            THEN /\ headers' = RebuiltAuthorization(tm_token', headers)
                 /\ CallPost(RETRY_RETRIES)
                 /\ pc' = "retry_post"
                 /\ outcome' = outcome
                 /\ excLog' = excLog
            ELSE /\ UNCHANGED << headers, retries, attempt, delay, waits, call >>
                 /\ IF LoginResult(resp) = "raise"
                    THEN /\ pc' = OnFieldException
                         /\ outcome' = "raised"
                         /\ excLog' = excLog \cup {fieldIdx}
                    ELSE /\ pc' = "persist"
                         /\ outcome' = outcome
                         /\ excLog' = excLog
    /\ UNCHANGED << samples, fieldIdx, opIdx, argVars, token, res, nPosts, firstStatus,
                    retryStatus, nRetried, fieldVars, fileVars, n401 >>

\* an attempt of the request retried after the re-login
FetchRetryPost ==
    /\ pc = "retry_post"
    /\ \E out \in ReportOutcomes : post_with_retry(out)
    /\ nRetried' = nRetried + 1
    /\ retryStatus' = IF call' = "returned" THEN res'.status_code ELSE retryStatus
    /\ pc' = IF call' = "running" THEN "retry_post"
             ELSE IF call' = "returned" THEN AfterRetry(res'.status_code)
             ELSE "persist"
    /\ UNCHANGED << samples, excLog, fieldIdx, opIdx, tokenVars, argVars, token, headers, retries,
                    nLogins, firstStatus, nRefresh, outcome, fieldVars, fileVars >>

\* variant: the response in res is returned even after the call raised
Returned_stale == res

\* the value fetch_field_data returns to process_field
Returned == IF call = "raised" THEN NoRes ELSE res

\* ------------------------------------------------------------------------
\* process_field
\* ------------------------------------------------------------------------
\* json.dump of an artifact into <group>/<field>/<file>.json
WriteFile(file, artifact) ==
    /\ writes' = [writes EXCEPT ![<<fieldIdx, file>>] = @ + 1]
    /\ lastArtifact' = artifact
    /\ outcome' = "written"

Sentinel(file, value) ==
    [field |-> fieldIdx, file |-> file, error |-> "network_failed", status_code |-> 0,
     filter_value |-> value, response |-> NoBody]

Result(file, value, r) ==
    [field |-> fieldIdx, file |-> file, error |-> "none", status_code |-> r.status_code,
     filter_value |-> value, response |-> r.body]

\* variant: every operator is sent the first collected sample
FilterValueFor_sample(filter_op, sample, comparison) == sample

\* filter_value of the loop body for operator filter_op
FilterValueFor(filter_op, sample, comparison) ==
    IF filter_op \in {"greater", "less"} /\ comparison # None THEN comparison ELSE sample

\* variant: the filters are applied even without a sample
SkipFilters_never(sample) == FALSE

\* if sample_value is None: return
SkipFilters(sample) == sample = None

\* sample_value, comparison_value and applicable_filters of process_field
\* for a body the raw request of field i is answered with: the two
\* extract_sample_value calls and the get_applicable_filters call
SamplesOfBody(i, body) ==
    LET sample == extract_sample_value([response |-> body], Catalog[i][1], Catalog[i][2], FALSE)
    IN  << sample,
           extract_sample_value([response |-> body], Catalog[i][1], Catalog[i][2], TRUE),
           get_applicable_filters(sample) >>

SampleKeys ==
    UNION { { <<i, b>> : b \in ReportBodies(Catalog[i][1], Catalog[i][2]) } :
            i \in 1..Len(Catalog) }

RECURSIVE SampleTable(_)
SampleTable(keys) ==
    IF keys = {} THEN << >>
    ELSE LET k == CHOOSE x \in keys : TRUE
         IN  (k :> SamplesOfBody(k[1], k[2])) @@ SampleTable(keys \ {k})

\* SamplesOfBody for every body of the service, evaluated once
Samples == SampleTable(SampleKeys)

\* the raw fetch returned None: sentinel, return
PersistRawFailed ==
    /\ pc = "persist"
    /\ opIdx = 0
    /\ Returned = NoRes
    /\ WriteFile("raw_data", Sentinel("raw_data", None))
    /\ pc' = "next_field"
    /\ UNCHANGED << samples, excLog, fieldIdx, opIdx, tokenVars, argVars, token, headers, res,
                    callVars, countVars, fieldVars, n401, delayed >>

\* the raw fetch returned a response: raw artifact, samples, first filter
PersistRaw ==
    /\ pc = "persist"
    /\ opIdx = 0
    /\ Returned # NoRes
    /\ WriteFile("raw_data", Result("raw_data", None, Returned))
    /\ LET raw == [status_code |-> Returned.status_code, response |-> Returned.body]
           sample == samples[<<fieldIdx, raw.response>>][1]
           comparison == samples[<<fieldIdx, raw.response>>][2]
           filters == samples[<<fieldIdx, raw.response>>][3]
       IN  /\ raw_result' = raw
           /\ sample_value' = sample
           /\ comparison_value' = comparison
           /\ IF SkipFilters(sample)
              THEN /\ pc' = "next_field"
                   /\ UNCHANGED << opIdx, applicable_filters, argVars, delayed >>
              ELSE /\ applicable_filters' = filters
                   /\ opIdx' = 1
                   /\ CallFetch(filters[1], FilterValueFor(filters[1], sample, comparison))
    /\ UNCHANGED << samples, excLog, fieldIdx, tokenVars, token, headers, res, callVars, countVars, n401 >>

\* a filtered fetch returned: filter artifact, next operator or return
PersistFilter ==
    /\ pc = "persist"
    /\ opIdx > 0
    /\ LET filter_op == applicable_filters[opIdx]
       IN  IF Returned = NoRes
           THEN WriteFile(filter_op, Sentinel(filter_op, filter_value))
           ELSE WriteFile(filter_op, Result(filter_op, filter_value, Returned))
    /\ IF opIdx < Len(applicable_filters)
       THEN /\ opIdx' = opIdx + 1
            /\ CallFetch(applicable_filters[opIdx + 1],
                         FilterValueFor(applicable_filters[opIdx + 1], sample_value, comparison_value))
       ELSE /\ pc' = "next_field"
            /\ UNCHANGED << opIdx, argVars, delayed >>
    /\ UNCHANGED << samples, excLog, fieldIdx, tokenVars, token, headers, res, callVars, countVars,
                    fieldVars, n401 >>

\* ------------------------------------------------------------------------
\* run
\* ------------------------------------------------------------------------
\* variant: run goes on without the  if not token  check
AfterInitialLogin_unchecked(result) ==
    IF result = "raise" THEN "crashed" ELSE "next_field"

\* what run does with the initial token_manager.get(): the loop on a token,
\* "Login failed - aborting" and return on None; an exception of login is
\* not caught inside run
AfterInitialLogin(result) ==
    IF result = "token" THEN "next_field"
    ELSE IF result = "none" THEN "aborted"
    ELSE "crashed"

\* token = token_manager.get(session) of run
RunLogin ==
    /\ pc = "run_login"
    /\ nLogins' = nLogins + 1
    /\ \E resp \in LoginResponses :
         /\ login(resp, tm_token)
         /\ pc' = AfterInitialLogin(LoginResult(resp))
    /\ UNCHANGED << samples, excLog, fieldIdx, opIdx, invalidated, argVars, token, headers, res,
                    callVars, nPosts, firstStatus, retryStatus, nRefresh, nRetried,
                    outcome, fieldVars, fileVars, n401 >>

\* the next field of the loop: process_field up to its raw fetch
RunNextField ==
    /\ pc = "next_field"
    /\ fieldIdx < Len(Catalog)
    /\ fieldIdx' = fieldIdx + 1
    /\ opIdx' = 0
    /\ CallFetch("none", None)
    /\ raw_result' = NoRaw
    /\ sample_value' = None
    /\ comparison_value' = None
    /\ applicable_filters' = <<>>
    /\ login_exc' = NoLogin
    /\ UNCHANGED << samples, excLog, tm_token, issued, invalidated, token, headers, res, callVars, countVars, outcome,
                    fileVars, n401 >>

\* the loop is over: "All done"
RunDone ==
    /\ pc = "next_field"
    /\ fieldIdx = Len(Catalog)
    /\ pc' = "done"
    /\ UNCHANGED << samples, excLog, fieldIdx, opIdx, tokenVars, argVars, fetchVars, fieldVars,
                    fileVars, n401, delayed >>

\* nothing requested, nothing written, no token
Fresh ==
    /\ opIdx = 0
    /\ tm_token = NoToken
    /\ issued = 0
    /\ invalidated = {}
    /\ token = NoToken
    /\ headers = NoToken
    /\ filter_operator = "none"
    /\ filter_value = None
    /\ res = NoRes
    /\ retries = 0
    /\ attempt = 0
    /\ delay = 0
    /\ waits = <<>>
    /\ call = "idle"
    /\ sample_value = None
    /\ comparison_value = None
    /\ applicable_filters = <<>>
    /\ writes = [f \in Files |-> 0]
    /\ lastArtifact = NoArtifact
    /\ nPosts = 0
    /\ nLogins = 0
    /\ firstStatus = 0
    /\ retryStatus = 0
    /\ nRefresh = 0
    /\ nRetried = 0
    /\ outcome = "pending"
    /\ n401 = 0
    /\ login_exc = NoLogin
    /\ delayed = FALSE
    /\ excLog = {}

Init ==
    /\ samples = Samples
    /\ pc = "run_login"
    /\ fieldIdx = 0
    /\ raw_result = NoRaw
    /\ Fresh

Next ==
    \/ RunLogin
    \/ RunNextField
    \/ RunDone
    \/ FetchGetCached
    \/ FetchGetLogin
    \/ FetchPost
    \/ FetchRefresh
    \/ FetchRetryPost
    \/ PersistRawFailed
    \/ PersistRaw
    \/ PersistFilter

Spec == Init /\ [][Next]_vars

\* run() is one sequential thread: every request has a timeout, every sleep
\* is finite, so the step the program is at is eventually taken
LiveSpec == Spec /\ WF_vars(Next)

\* ------------------------------------------------------------------------
\* The sample value extractor on its own: the Derive step of process_field
\* over the raw bodies of ExtractBodies, for the field deposits.amount
\* ------------------------------------------------------------------------
Amount_total == <<"A", "m", "o", "u", "n", "t", "_", "t", "o", "t", "a", "l">>

OneKeyRow(key, value) == [k |-> "dict", items |-> << <<key, value>> >>]

TwoKeyRow(k1, v1, k2, v2) == [k |-> "dict", items |-> << <<k1, v1>>, <<k2, v2>> >>]

\* a row with a key that only contains the field name, then a candidate key
\* of lower priority, then the field name itself
ThreeKeyRow(k1, v1, k2, v2, k3, v3) ==
    [k |-> "dict", items |-> << <<k1, v1>>, <<k2, v2>>, <<k3, v3>> >>]

ExtractValues == {S_12_50, S_12_5, S_45, S_30, S_9, None}

ExtractRows ==
    {OneKeyRow(amount, v) : v \in ExtractValues}
    \cup { TwoKeyRow(amount, S_blank, Amount_total, JInt(45)),
           ThreeKeyRow(Amount_total, S_9,
                       possible_keys(deposits, amount)[3], S_30,
                       amount, S_abc) }

ExtractBodies ==
    {RowsBody(rows) : rows \in UNION {[1..n -> ExtractRows] : n \in 0..MaxRows}}
    \cup {RowsBody(<<[k |-> "other"], OneKeyRow(amount, S_empty)>>),
          [k |-> "nodata"], [k |-> "notlist"], [k |-> "scalar"]}

ExtractInit ==
    /\ samples = Samples
    /\ pc = "derive"
    /\ fieldIdx = 2
    /\ raw_result \in {[status_code |-> 200, response |-> b] : b \in ExtractBodies}
    /\ Fresh

\* lines 401-414 of process_field
Derive ==
    /\ pc = "derive"
    /\ sample_value' = extract_sample_value(raw_result, group, field, FALSE)
    /\ comparison_value' = extract_sample_value(raw_result, group, field, TRUE)
    /\ applicable_filters' = IF SkipFilters(sample_value') THEN <<>>
                             ELSE get_applicable_filters(sample_value')
    /\ pc' = "derived"
    /\ UNCHANGED << samples, excLog, fieldIdx, opIdx, tokenVars, argVars, fetchVars, raw_result,
                    fileVars, n401, delayed >>

ExtractNext == Derive

ExtractSpec == ExtractInit /\ [][ExtractNext]_vars

\* ------------------------------------------------------------------------
\* post_with_retry on its own, for every retries argument up to MaxRetries
\* ------------------------------------------------------------------------
RetryInit ==
    /\ samples = Samples
    /\ pc = "call_post"
    /\ fieldIdx = 1
    /\ raw_result = NoRaw
    /\ Fresh

RetryCall ==
    /\ pc = "call_post"
    /\ \E n \in 1..MaxRetries : CallPost(n)
    /\ pc' = "in_post"
    /\ UNCHANGED << samples, excLog, fieldIdx, opIdx, tokenVars, argVars, token, headers, res,
                    countVars, outcome, fieldVars, fileVars, n401, delayed >>

RetryAttempt ==
    /\ pc = "in_post"
    /\ \E out \in ReportOutcomes : post_with_retry(out)
    /\ UNCHANGED << samples, excLog, pc, fieldIdx, opIdx, tokenVars, argVars, token, headers, retries,
                    nLogins, firstStatus, retryStatus, nRefresh, nRetried, outcome,
                    fieldVars, fileVars >>

RetryNext == RetryCall \/ RetryAttempt

RetrySpec == RetryInit /\ [][RetryNext]_vars

\* ------------------------------------------------------------------------
\* Properties
\* ------------------------------------------------------------------------
Range(seq) == {seq[i] : i \in 1..Len(seq)}

RECURSIVE Pow2(_)
Pow2(k) == IF k = 0 THEN 1 ELSE 2 * Pow2(k - 1)

\* process_field has been left (by return or by exception) for fields 1..fieldIdx
FieldsLeft == IF pc \in {"next_field", "done"} THEN 1..fieldIdx ELSE 1..(fieldIdx - 1)

\* C1: every field handed to process_field has exactly one raw artifact once
\* process_field is left, whatever the outcome of the raw fetch, and no raw
\* artifact is ever written twice.
C1_ExactlyOneRawArtifact ==
    /\ \A i \in 1..Len(Catalog) : writes[<<i, "raw_data">>] <= 1
    /\ \A i \in FieldsLeft : writes[<<i, "raw_data">>] = 1

\* C2: a fetch whose first response is a 401 re-logins exactly once and sends
\* at most one further report request; when that request is answered 401 too,
\* nothing more is sent and the artifact records status_code 401.
C2_Single401Retry ==
    firstStatus = 401 =>
        /\ nRefresh <= 1
        /\ nRetried <= 1
        /\ pc # "refresh" => nRefresh = 1
        /\ retryStatus = 401 =>
             /\ nRefresh = 1
             /\ nRetried = 1
             /\ nLogins <= 2
             /\ pc = "persist" \/ outcome = "written"
             /\ outcome = "written" =>
                  /\ lastArtifact.error = "none"
                  /\ lastArtifact.status_code = 401

C2_Witness ==
    /\ firstStatus = 401
    /\ retryStatus = 401
    /\ outcome = "written"
    /\ lastArtifact.status_code = 401

\* C3 as claimed: the request retried after a 401 has the attempt budget of
\* the first request, so a network failure surfaces from it only after
\* FIRST_RETRIES attempts.
C3_FreshBudgetOfTwo ==
    (nRefresh = 1 /\ call = "raised") => nRetried = FIRST_RETRIES

\* C3 as amended: the request retried after a 401 is attempted exactly once,
\* without backoff: its first network failure is surfaced at once, while the
\* first request of the fetch is allowed FIRST_RETRIES attempts.
C3_RetriedOnceOnly ==
    /\ nRetried <= 1
    /\ nPosts - nRetried <= FIRST_RETRIES
    /\ pc = "retry_post" => retries = 1 /\ waits = <<>> /\ nRetried = 0
    /\ (nRefresh = 1 /\ call = "raised") => (nRetried = 1 /\ waits = <<>>)

C3_Witness ==
    /\ nRefresh = 1
    /\ call = "raised"
    /\ nRetried = 1
    /\ nPosts = 3

\* C4: when no row yields a usable value for the field, no filtered request
\* is sent and no filter artifact is written, and the raw artifact is written
\* with the status code received.
C4_AbsentSampleNoFilters ==
    (raw_result # NoRaw /\ extract_sample_value(raw_result, group, field, FALSE) = None) =>
        /\ pc \in {"next_field", "done"}
        /\ opIdx = 0
        /\ filter_operator = "none"
        /\ \A f \in Range(FILTERS) : writes[<<fieldIdx, f>>] = 0
        /\ writes[<<fieldIdx, "raw_data">>] = 1
        /\ res.net = "ok"
        /\ lastArtifact = [field |-> fieldIdx, file |-> "raw_data", error |-> "none",
                           status_code |-> res.status_code, filter_value |-> None,
                           response |-> res.body]

C4_Witness ==
    /\ raw_result = [status_code |-> 200,
                     response |-> RowsBody(RowsOf(Label(receipts, note), <<S_empty, None>>))]
    /\ fieldIdx = 1
    /\ pc = "next_field"
    /\ lastArtifact.status_code = 200
    /\ lastArtifact.file = "raw_data"

\* the rows of the example
ExampleBody == RowsBody(RowsOf(amount, <<S_12_50, S_45, S_30, S_9>>))

F_9 == [ok |-> TRUE, m |-> 9, e |-> 0]
F_12_5 == [ok |-> TRUE, m |-> 125, e |-> 1]
F_30 == [ok |-> TRUE, m |-> 30, e |-> 0]
F_45 == [ok |-> TRUE, m |-> 45, e |-> 0]

ExampleDerived == pc = "derived" /\ raw_result.response = ExampleBody

\* C5 as claimed: on the example rows the comparison sample is the row value
\* whose numeric parse is 12.5 (mid index 0 of the slice [12.5, 30]).
C5_ExampleSelects12_5 ==
    ExampleDerived => PyFloat(comparison_value) = F_12_5

\* C5 as amended: on the example rows the numeric values sort to
\* [9, 12.5, 30, 45], the slice [1,3) is [12.5, 30], the mid index is
\* 2 div 2 = 1 and the comparison sample is the row value "30".
C5_ExampleSelects30 ==
    ExampleDerived =>
        LET sorted == SortFloats(NumericValues(CollectValues(ExampleBody.rows, group, field)))
        IN  /\ sorted = <<F_9, F_12_5, F_30, F_45>>
            /\ SubSeq(sorted, (4 \div 4) + 1, (3 * 4) \div 4) = <<F_12_5, F_30>>
            /\ comparison_value = S_30
            /\ sample_value = S_12_50

C5_Witness == ExampleDerived /\ comparison_value = S_30

\* C6: with at least 4 distinct numeric values among the n numeric collected
\* values, the comparison sample is one of the collected row values and its
\* numeric parse sits at a sorted index i with n div 4 <= i < 3n div 4.
C6_MiddleRange ==
    (pc = "derived" /\ raw_result.response.k = "rows") =>
        LET values == CollectValues(raw_result.response.rows, group, field)
            nums == NumericValues(values)
            n == Len(nums)
            v == PyFloat(comparison_value)
            below == Cardinality({j \in 1..n : FloatLess(nums[j], v)})
            upto == Cardinality({j \in 1..n : ~FloatLess(v, nums[j])})
        IN  Cardinality(Range(nums)) >= 4 =>
                /\ comparison_value \in Range(values)
                /\ v.ok
                /\ \E i \in (n \div 4)..(((3 * n) \div 4) - 1) : below <= i /\ i < upto

C6_Witness ==
    /\ pc = "derived"
    /\ raw_result.response.k = "rows"
    /\ Cardinality(Range(NumericValues(CollectValues(raw_result.response.rows, group, field)))) >= 4
    /\ comparison_value # sample_value

\* C7: the operators applied to a field are fixed by the type of the first
\* collected value alone: all six when it is numeric, and equal, not_equal,
\* like, in when it is not, in which case nothing is requested or written
\* for greater or less even when later rows are numeric.
C7_FiltersByFirstSample ==
    (raw_result # NoRaw /\ raw_result.response.k = "rows") =>
        LET values == CollectValues(raw_result.response.rows, group, field)
            expected == IF is_numeric(values[1]) THEN FILTERS
                        ELSE <<"equal", "not_equal", "like", "in">>
        IN  values # <<>> =>
                /\ applicable_filters = expected
                /\ opIdx \in 1..Len(expected)
                /\ filter_operator = expected[opIdx]
                /\ \A f \in Range(FILTERS) \ Range(expected) : writes[<<fieldIdx, f>>] = 0
                /\ \A f \in Range(FILTERS) : writes[<<fieldIdx, f>>] <= 1
                /\ (pc = "next_field" /\ outcome = "written") =>
                       \A f \in Range(expected) : writes[<<fieldIdx, f>>] = 1

C7_Witness ==
    /\ raw_result.response = RowsBody(RowsOf(Label(deposits, amount), <<S_abc, S_45, S_30>>))
    /\ comparison_value = S_30
    /\ pc = "next_field"
    /\ outcome = "written"
    /\ writes[<<fieldIdx, "in">>] = 1
    /\ writes[<<fieldIdx, "greater">>] = 0

\* C8: TokenManager.login never raises, whatever the login endpoint answers.
C8_LoginNeverRaises == login_exc = NoLogin

\* C9: a report request never carries a token that refresh has invalidated.
C9_NoInvalidatedToken ==
    [][nPosts' = nPosts + 1 => (headers # NoToken /\ headers \notin invalidated)]_vars

C9_Witness ==
    /\ nRetried = 1
    /\ headers \notin invalidated
    /\ token \in invalidated

\* C10: post_with_retry(retries = n) makes at most n attempts, returns the
\* first response whatever its status, waits 1, 2, 4, ... after the failures
\* before the n-th, and raises after the n-th failure without a further wait.
C10_RetryBackoff ==
    pc = "in_post" =>
        /\ nPosts <= retries
        /\ Len(waits) <= retries - 1
        /\ \A k \in 1..Len(waits) : waits[k] = Pow2(k - 1)
        /\ call = "running" => (nPosts = Len(waits) /\ attempt = nPosts + 1)
        /\ call = "returned" => (res.net = "ok" /\ nPosts = Len(waits) + 1)
        /\ call = "raised" => (res = NoRes /\ nPosts = retries /\ Len(waits) = retries - 1)

C10_Witness ==
    /\ pc = "in_post"
    /\ retries = 4
    /\ waits = <<1, 2, 4>>
    /\ call = "returned"
    /\ res.status_code = 500

\* C11: a report response whose status is not 401 (an error status included)
\* ends the fetch: no further report request is sent, no re-login is made,
\* and the artifact written for the fetch records exactly the status code
\* and the body of that response.
C11_Non401IsFinal ==
    /\ (firstStatus # 0 /\ firstStatus # 401) =>
          /\ nRefresh = 0
          /\ nRetried = 0
          /\ nLogins <= 1
          /\ nPosts = Len(waits) + 1
          /\ res.status_code = firstStatus
          /\ pc = "persist" \/ outcome = "written"
    /\ (retryStatus # 0 /\ retryStatus # 401) =>
          /\ nRefresh = 1
          /\ nRetried = 1
          /\ res.status_code = retryStatus
          /\ pc = "persist" \/ outcome = "written"
    /\ ( /\ outcome = "written"
         /\ \/ (firstStatus # 0 /\ firstStatus # 401)
            \/ (retryStatus # 0 /\ retryStatus # 401) ) =>
          /\ lastArtifact.error = "none"
          /\ lastArtifact.status_code = res.status_code
          /\ lastArtifact.response = res.body

\* an error status 500 on the first request was persisted as it came
C11_Witness ==
    /\ firstStatus = 500
    /\ nPosts = 1
    /\ outcome = "written"
    /\ lastArtifact.status_code = 500

\* C12: when process_field is over for a field whose sample is present,
\* exactly one artifact has been written for each operator of the applicable
\* set and none for any other operator, whatever each filtered fetch ended
\* in (transport failure, no token, error status).
C12_OneArtifactPerOperator ==
    (pc \in {"next_field", "done"} /\ fieldIdx >= 1 /\ sample_value # None) =>
        \A f \in FileNames \ {"raw_data"} :
            writes[<<fieldIdx, f>>] = IF f \in Range(applicable_filters) THEN 1 ELSE 0

\* C13: once the initial login has succeeded the run terminates normally:
\* it reaches "All done", and no exception escapes run(), whatever the
\* fetches of the fields end in.
C13_RunTerminates ==
    /\ (pc = "next_field" /\ fieldIdx = 0) ~> (pc = "done")
    /\ [](issued > 0 => pc \notin {"crashed", "aborted"})

\* the run reached "All done" although its last fetch ended in an exception
C13_Witness ==
    /\ pc = "done"
    /\ outcome = "raised"
    /\ fieldIdx = Len(Catalog)

\* C14: when the initial login of run fails the run stops before the catalog
\* is iterated: no report request has been sent, no artifact written, and
\* nothing happens afterwards; and a run is stopped by no other login
\* failure than the initial one.
C14_InitialLoginFailureAborts ==
    /\ []( pc \in {"aborted", "crashed"} =>
             /\ fieldIdx = 0
             /\ tm_token = NoToken
             /\ nLogins = 1
             /\ nPosts = 0
             /\ n401 = 0
             /\ lastArtifact = NoArtifact
             /\ \A f \in Files : writes[f] = 0 )
    /\ []( (pc # "run_login" /\ fieldIdx = 0 /\ tm_token = NoToken) =>
             pc \in {"aborted", "crashed"} )
    /\ [][pc \notin {"aborted", "crashed"}]_vars
    /\ [][pc' \in {"aborted", "crashed"} => pc = "run_login"]_vars

\* the initial login returned None and the run was aborted
C14_Witness ==
    /\ pc = "aborted"
    /\ nLogins = 1
    /\ tm_token = NoToken

\* C15: an exception raised while one field is processed does not halt the
\* run: the run ends only after the last field of the catalog, and every
\* field after the one that raised has been handed to process_field and
\* has its raw artifact once its processing is over.
C15_LaterFieldsGetRawArtifact ==
    /\ pc = "done" => fieldIdx = Len(Catalog)
    /\ \A i \in excLog : \A j \in (i + 1)..Len(Catalog) :
          (j < fieldIdx \/ (j = fieldIdx /\ pc \in {"next_field", "done"})) =>
              writes[<<j, "raw_data">>] = 1

\* the values collected from the rows of the body that was derived from
Collected ==
    IF raw_result.response.k = "rows"
    THEN CollectValues(raw_result.response.rows, group, field)
    ELSE <<>>

\* the positions, in row order, of the values whose numeric parse is that
\* of the sample
Ties(values, sample) ==
    LET parsed == PyFloat(sample)
    IN  {j \in 1..Len(values) : is_numeric(values[j]) /\ PyFloat(values[j]) = parsed}

MinOf(S) == CHOOSE x \in S : \A y \in S : x <= y
MaxOf(S) == CHOOSE x \in S : \A y \in S : y <= x

\* C17 as claimed: when two or more collected values are numeric, the
\* comparison sample is the original value of the first collected value, in
\* row order, whose numeric parse is the selected number.
C17_TieKeepsFirst ==
    pc = "derived" =>
        LET values == Collected
            ties == Ties(values, comparison_value)
        IN  Len(NumericValues(values)) > 1 =>
                /\ ties # {}
                /\ comparison_value = values[MinOf(ties)]

\* C17 as amended: the comparison sample is the original value of the last
\* collected value, in row order, whose numeric parse is the selected number.
C17_TieKeepsLast ==
    pc = "derived" =>
        LET values == Collected
            ties == Ties(values, comparison_value)
        IN  Len(NumericValues(values)) > 1 =>
                /\ ties # {}
                /\ comparison_value = values[MaxOf(ties)]

\* "12.50" was collected before "12.5", 12.5 was selected, "12.5" returned
C17_Witness ==
    /\ pc = "derived"
    /\ comparison_value = S_12_5
    /\ LET values == Collected
           ties == Ties(values, comparison_value)
       IN  /\ Len(NumericValues(values)) > 1
           /\ Cardinality(ties) >= 2
           /\ values[MinOf(ties)] = S_12_50
           /\ values[MaxOf(ties)] = S_12_5

\* the rows of the body that was derived from
DerivedRows == IF raw_result.response.k = "rows" THEN raw_result.response.rows ELSE <<>>

\* the positions of the candidate keys, in priority order, that the row has
PresentKeys(row) ==
    {i \in 1..4 : row.k = "dict" /\ RowHas(row.items, possible_keys(group, field)[i])}

\* those of them that hold a value which is neither null nor blank
UsableKeys(row) ==
    {i \in PresentKeys(row) : Usable(RowGet(row.items, possible_keys(group, field)[i]))}

\* the positions, in the row, of the keys that contain the field name
\* whatever the case and hold a value which is neither null nor blank
SubstringItems(row) ==
    IF row.k # "dict" THEN {}
    ELSE {i \in 1..Len(row.items) :
            /\ Contains(Lower(row.items[i][1]), Lower(field))
            /\ Usable(row.items[i][2])}

\* the value a row can only contribute through the substring fallback
FallbackValue(row) == row.items[MinOf(SubstringItems(row))][2]

\* the value of the highest-priority candidate key with a usable value
CandidateValue(row) == RowGet(row.items, possible_keys(group, field)[MinOf(UsableKeys(row))])

\* the first row that contributes a value when the fallback is used for
\* the rows of  fallbackRows  only; 0 when no row contributes
FirstContributing(fallbackRows) ==
    LET rows == DerivedRows
        gives == {i \in 1..Len(rows) :
                    \/ UsableKeys(rows[i]) # {}
                    \/ (i \in fallbackRows /\ SubstringItems(rows[i]) # {})}
    IN  IF gives = {} THEN 0 ELSE MinOf(gives)

\* the sample expected when the fallback is used for  fallbackRows  only
ExpectedSample(fallbackRows) ==
    LET i == FirstContributing(fallbackRows)
    IN  IF i = 0 THEN None
        ELSE IF UsableKeys(DerivedRows[i]) # {} THEN CandidateValue(DerivedRows[i])
        ELSE FallbackValue(DerivedRows[i])

\* C18 as claimed: the substring fallback is used only for a row in which
\* none of the four candidate keys is present; a row with a candidate key
\* that is present but null or blank contributes no value, so the sample is
\* the first value contributed under that rule.
C18_FallbackOnlyWhenAbsent ==
    pc = "derived" =>
        sample_value = ExpectedSample({i \in 1..Len(DerivedRows) :
                                          PresentKeys(DerivedRows[i]) = {}})

\* C18 as amended: the substring fallback is used for every row in which no
\* candidate key holds a usable value, a row whose candidate key is present
\* but null or blank included.
C18_FallbackWhenNoneUsable ==
    pc = "derived" =>
        sample_value = ExpectedSample({i \in 1..Len(DerivedRows) :
                                          UsableKeys(DerivedRows[i]) = {}})

\* the first row has the candidate key "amount" with a blank value and the
\* key "Amount_total" with 45: the sample is 45
C18_Witness ==
    /\ pc = "derived"
    /\ Len(DerivedRows) >= 1
    /\ PresentKeys(DerivedRows[1]) # {}
    /\ UsableKeys(DerivedRows[1]) = {}
    /\ SubstringItems(DerivedRows[1]) # {}
    /\ sample_value = JInt(45)

\* C19: every row contributes at most one value; a row in which one or more
\* candidate keys hold a usable value contributes the value of the one of
\* highest priority, whatever the order of the keys in the row and whatever
\* other key contains the field name.
C19_OneValuePerRowByPriority ==
    pc = "derived" =>
        /\ Len(Collected) <= Len(DerivedRows)
        /\ \A i \in 1..Len(DerivedRows) :
              LET row == DerivedRows[i]
                  got == RowValues(row, group, field)
              IN  /\ Len(got) <= 1
                  /\ UsableKeys(row) # {} => got = <<CandidateValue(row)>>
        /\ (Len(DerivedRows) >= 1 /\ UsableKeys(DerivedRows[1]) # {}) =>
              sample_value = CandidateValue(DerivedRows[1])

\* the first row holds "9" under Amount_total, "30" under deposits_amount
\* and then "abc" under amount: the value under the field name itself is
\* the sample
C19_Witness ==
    /\ pc = "derived"
    /\ Len(DerivedRows) >= 1
    /\ Cardinality(UsableKeys(DerivedRows[1])) >= 2
    /\ DerivedRows[1].items[1][2] = S_9
    /\ sample_value = S_abc

\* the values held by the rows of the body, as they are in the rows
RowItemValues ==
    UNION { IF DerivedRows[i].k = "dict"
            THEN {DerivedRows[i].items[k][2] : k \in 1..Len(DerivedRows[i].items)}
            ELSE {} : i \in 1..Len(DerivedRows) }

\* C20: without forComparison, and with forComparison when fewer than two
\* collected values are numeric, the extractor returns the first collected
\* value in row order as it is in the row, or nothing when no value was
\* collected; a null or blank value is never returned.
C20_FirstCollectedValue ==
    pc = "derived" =>
        LET values == Collected
            first == IF values = <<>> THEN None ELSE values[1]
        IN  /\ sample_value = first
            /\ Len(NumericValues(values)) < 2 => comparison_value = first
            /\ \A v \in {sample_value, comparison_value} :
                  v # None => (v \in RowItemValues /\ Usable(v))

\* a null first row was skipped, of the two collected values only one is
\* numeric, and both samples are the first collected value
C20_Witness ==
    /\ pc = "derived"
    /\ Len(DerivedRows) = 3
    /\ RowValues(DerivedRows[1], group, field) = <<>>
    /\ LET values == Collected
       IN  /\ Len(values) = 2
           /\ Len(NumericValues(values)) = 1
           /\ values[1] # values[2]
           /\ sample_value = values[1]
           /\ comparison_value = values[1]

\* the filter value the field's samples call for with operator op
ValueFor(op) ==
    IF op \in {"greater", "less"}
    THEN (IF comparison_value # None THEN comparison_value ELSE sample_value)
    ELSE sample_value

\* C21: while a filtered fetch is under way its operator is the current one
\* of the applicable list and the value it sends is the comparison sample
\* for greater and less (the first collected sample if there were no
\* comparison sample) and the first collected sample for equal, not_equal,
\* like and in; the filter_value of every filter artifact is the value that
\* was sent for its operator.
C21_FilterValueByOperator ==
    /\ (opIdx > 0 /\ pc \in {"get", "post", "refresh", "retry_post", "persist"}) =>
          /\ filter_operator = applicable_filters[opIdx]
          /\ filter_value = ValueFor(filter_operator)
    /\ (lastArtifact.field = fieldIdx /\ lastArtifact.file \in Range(FILTERS)) =>
          lastArtifact.filter_value = ValueFor(lastArtifact.file)

\* the artifact of "greater" holds the comparison sample "30" while the
\* first collected sample is "12.50"
C21_Witness ==
    /\ lastArtifact.field = fieldIdx
    /\ lastArtifact.file = "greater"
    /\ lastArtifact.error = "none"
    /\ lastArtifact.filter_value = S_30
    /\ sample_value = S_12_50

\* a report request is about to be sent
Sending == pc \in {"post", "retry_post"} /\ call = "running"

\* C22 as stated: every report request is sent with the fixed inter-request
\* delay elapsed since the previous network call.
C22_DelayBeforeEveryRequest ==
    Sending => delayed

\* C22: the fixed delay elapses once before each fetch, so every fetch is
\* entered with the delay elapsed and the first network call of the fetch
\* (its login or its first report request) follows the delay; a report
\* request sent without the delay since the previous network call is one
\* that follows a login or an earlier report request of the same fetch.
C22_DelayBeforeEveryFetch ==
    /\ pc = "get" => delayed
    /\ (Sending /\ ~delayed) => (nLogins > 0 \/ nPosts > 0)

\* the request retried after a 401 has been sent straight after the
\* re-login, with no fixed delay in between
C22_Witness ==
    /\ nRetried = 1
    /\ nRefresh = 1
    /\ nPosts = 2
    /\ ~delayed

\* the operator order the filter requests are to follow
FixedOrder == <<"equal", "not_equal", "greater", "less", "like", "in">>

PosInOrder(f) == CHOOSE i \in 1..Len(FixedOrder) : FixedOrder[i] = f

\* a fetch is under way
InFetch == pc \in {"get", "post", "refresh", "retry_post", "persist"}

\* the order of requests and artifacts in one state
Ordered ==
    \* a request is outstanding at one point of the one thread only
    /\ call = "running" => pc \in {"post", "retry_post"}
    \* a filtered fetch starts after the raw artifact of its field
    /\ opIdx > 0 => writes[<<fieldIdx, "raw_data">>] = 1
    \* the operators of the field are a subsequence of the fixed order
    /\ \A k \in DOMAIN applicable_filters :
          /\ applicable_filters[k] \in Range(FixedOrder)
          /\ \A l \in DOMAIN applicable_filters :
                k < l => PosInOrder(applicable_filters[k]) < PosInOrder(applicable_filters[l])
    \* the operator being fetched comes after all written ones and before
    \* all the others
    /\ (opIdx > 0 /\ InFetch) => filter_operator = applicable_filters[opIdx]
    /\ \A k \in DOMAIN applicable_filters :
          /\ k < opIdx => writes[<<fieldIdx, applicable_filters[k]>>] = 1
          /\ k > opIdx => writes[<<fieldIdx, applicable_filters[k]>>] = 0
          /\ (k = opIdx /\ InFetch) => writes[<<fieldIdx, applicable_filters[k]>>] = 0
    \* nothing of a later field has been written
    /\ \A f \in Files : f[1] > fieldIdx => writes[f] = 0

\* C23: processing is sequential and ordered: a request is outstanding at
\* one program point only; the raw artifact of a field is written before
\* any filtered request of the field; the filtered requests follow the
\* order equal, not_equal, greater, less, like, in restricted to the
\* applicable operators, each after the artifact of the one before; and an
\* artifact is written only for the field being processed, so that no
\* artifact of a field is written after the first request of the next one.
C23_SequentialOrdered ==
    [][ /\ Ordered
        /\ Ordered'
        /\ \A f \in Files :
              writes'[f] # writes[f] => (f[1] = fieldIdx /\ fieldIdx' = fieldIdx) ]_vars

\* the second field is at its third operator, greater, with every artifact
\* of the first field and its own earlier ones written
C23_Witness ==
    /\ fieldIdx = 2
    /\ pc = "post"
    /\ opIdx = 3
    /\ filter_operator = "greater"
    /\ writes[<<1, "in">>] = 1
    /\ writes[<<2, "not_equal">>] = 1
    /\ writes[<<2, "greater">>] = 0

\* the step sends a login request
LoginStep ==
    \/ pc = "get" /\ nLogins' = 1
    \/ pc # "get" /\ nLogins' = nLogins + 1

\* C24: TokenManager.get logs in only when the slot is empty and otherwise
\* hands out the cached token with no network call; as long as no report
\* request has been answered 401 the only login request of the run is the
\* initial one, and every report request carries the token it returned.
C24_OneLoginWithout401 ==
    [][ /\ (pc = "get" /\ LoginStep) => tm_token = NoToken
        /\ (pc = "get" /\ tm_token # NoToken) =>
              (token' = tm_token /\ tm_token' = tm_token /\ nLogins' = 0 /\ nPosts' = 0)
        /\ (n401 = 0 /\ LoginStep) => (pc = "run_login" /\ issued = 0)
        /\ (n401 = 0 /\ Sending) => (issued = 1 /\ tm_token = 1 /\ headers = 1)
        /\ (n401' = 0 /\ pc' = "done") => issued' = 1 ]_vars

\* the run ended without a 401: both fields fetched with the token of the
\* single login
C24_Witness ==
    /\ pc = "done"
    /\ n401 = 0
    /\ issued = 1
    /\ tm_token = 1
    /\ headers = 1
    /\ writes[<<2, "in">>] = 1

\* the file the current fetch is for
FetchFile == IF opIdx = 0 THEN "raw_data" ELSE applicable_filters[opIdx]

\* the current fetch found the slot empty and its login gave no token
EntryLoginFailed ==
    /\ fieldIdx > 0
    /\ pc # "get"
    /\ nLogins = 1
    /\ nRefresh = 0
    /\ token = NoToken

\* C25: every report request carries a non-empty token, the one returned by
\* the most recent successful login; a fetch that finds the slot empty and
\* whose login fails sends no report request and has a network_failed
\* sentinel recorded as its artifact.
C25_TokenOrSentinel ==
    /\ Sending => (headers # NoToken /\ headers = issued)
    /\ EntryLoginFailed =>
          /\ nPosts = 0
          /\ \/ pc = "persist"
             \/ /\ outcome = "written"
                /\ lastArtifact = Sentinel(FetchFile, filter_value)

\* the re-login of the last fetch entered gave no token
ReLoginFailed ==
    /\ fieldIdx > 0
    /\ nRefresh = 1
    /\ nRetried = 0
    /\ pc # "retry_post"

\* C26: when the re-login after a 401 fails, the fetch sends no retried
\* request and returns the 401 response, which is written with status_code
\* 401; the slot stays empty and the run goes on, so that the next fetch
\* starts with an empty slot and has to log in before it can send a request.
C26_FailedReLoginKeeps401 ==
    ReLoginFailed =>
        /\ tm_token = NoToken
        /\ pc \notin {"aborted", "crashed"}
        /\ pc # "get" =>
              /\ firstStatus = 401
              /\ nPosts <= FIRST_RETRIES
              /\ \/ pc = "persist" /\ Returned # NoRes /\ Returned.status_code = 401
                 \/ /\ outcome = "written"
                    /\ lastArtifact = Result(FetchFile, filter_value, res)
                    /\ lastArtifact.status_code = 401

\* C27: one fetch sends at most 3 report requests, at most 2 attempts of its
\* first request and at most 1 retried request after a 401, and at most 2
\* login requests, one on entry with an empty slot and one re-login after a
\* 401, whatever the responses and failures.
C27_RequestsPerFetch ==
    /\ nPosts <= 3
    /\ nPosts - nRetried <= 2
    /\ nRetried <= 1
    /\ nLogins <= 2
    /\ nLogins - nRefresh <= 1
    /\ nRefresh <= 1

\* a fetch that logged in on entry, failed once, was answered 401, logged in
\* again and sent its retried request
C27_Witness ==
    /\ fieldIdx > 0
    /\ nPosts = 3
    /\ nRetried = 1
    /\ nLogins = 2
    /\ nRefresh = 1
    /\ outcome = "written"

\* the slot as the current fetch found it: empty if the fetch logged in on
\* entry, the token it was handed otherwise
SlotAtEntry == IF nLogins - nRefresh = 1 THEN NoToken ELSE token

\* the current fetch had its first request fail at transport level, or
\* answered with a status other than 401
EndsWithoutRefresh ==
    /\ fieldIdx > 0
    /\ pc # "get"
    /\ \/ call = "raised" /\ nRefresh = 0
       \/ firstStatus \notin {0, 401}

\* C28 as stated: a fetch whose first request fails at transport level or is
\* answered with a status other than 401 leaves the slot as it was before
\* the fetch.
C28_SlotAsBeforeFetch ==
    EndsWithoutRefresh => tm_token = SlotAtEntry

\* C28: the slot changes only in a step that logs in (the login of an empty
\* slot or the refresh after a 401); a login that fails writes no value, so
\* the slot is empty after it, and one that succeeds writes the token it
\* returned; a fetch whose first request fails at transport level or is
\* answered with a status other than 401 leaves the slot as its own token
\* acquisition left it, holding the token the fetch was handed.
C28_SlotChangedByLoginOnly ==
    [][ /\ tm_token' # tm_token => LoginStep
        /\ (LoginStep /\ issued' = issued) => tm_token' = NoToken
        /\ (LoginStep /\ issued' # issued) => tm_token' = issued'
        /\ EndsWithoutRefresh' => (tm_token' = token' /\ token' # NoToken) ]_vars

\* a fetch that found the slot empty, logged in and then failed at transport
\* level: the slot holds the new token, not what it held before the fetch
C28_Witness ==
    /\ EndsWithoutRefresh
    /\ call = "raised"
    /\ nLogins = 1
    /\ SlotAtEntry = NoToken
    /\ tm_token = token
    /\ tm_token # NoToken

\* the status of the last response the fetch received, 0 if it received none
LastStatus == IF retryStatus # 0 THEN retryStatus ELSE firstStatus

\* C29: the artifact written for a fetch records the status of the last
\* response the fetch received, except that a retried request that fails at
\* network level after a 401 leaves a network_failed sentinel without
\* status_code, the 401 response being dropped; a fetch that received no
\* response leaves a sentinel as well.
C29_ArtifactReflectsLast ==
    (fieldIdx > 0 /\ outcome = "written") =>
        IF nRetried = 1 /\ call = "raised"
        THEN /\ firstStatus = 401
             /\ lastArtifact.error = "network_failed"
             /\ lastArtifact.status_code = 0
             /\ lastArtifact.response = NoBody
        ELSE IF LastStatus # 0
        THEN /\ lastArtifact.error = "none"
             /\ lastArtifact.status_code = LastStatus
        ELSE /\ lastArtifact.error = "network_failed"
             /\ lastArtifact.status_code = 0

\* the retried request failed at network level and the sentinel was written
\* in place of the 401 response
C29_Witness ==
    /\ outcome = "written"
    /\ firstStatus = 401
    /\ nRetried = 1
    /\ call = "raised"
    /\ res.status_code = 401
    /\ lastArtifact.error = "network_failed"

\* C30: for every raw response the comparison sample is absent exactly when
\* the first collected sample is; hence whenever the filters are applied a
\* comparison sample exists, and for every applicable operator the filter
\* value is non-null and the payload of its request gets all four
\* filters[group][0][field|group|operator|value] entries.
C30_ComparisonAbsentIffSampleAbsent ==
    pc = "derived" =>
        /\ sample_value = None <=> comparison_value = None
        /\ ~SkipFilters(sample_value) =>
              /\ comparison_value # None
              /\ applicable_filters # <<>>
              /\ \A k \in DOMAIN applicable_filters :
                    LET op == applicable_filters[k]
                        value == FilterValueFor(op, sample_value, comparison_value)
                    IN  /\ value # None
                        /\ FilterEntries(op, value) = {"field", "group", "operator", "value"}

\* a single numeric value was collected: the comparison sample falls back
\* to it and is the value sent with greater
C30_Witness ==
    /\ pc = "derived"
    /\ Len(Collected) = 1
    /\ sample_value # None
    /\ comparison_value = sample_value
    /\ "greater" \in Range(applicable_filters)

====
